---- MODULE Spec2Model ----
(***************************************************************************)
(* Model of src/main.py: main(input_file, output_file), the sales record   *)
(* cleaner.  One run of main is one behaviour: the input file is chosen in *)
(* Init and each statement group of main is one action.  Text is a         *)
(* sequence of one-character strings, a price is a number of thousandths,  *)
(* a cell of the data frame is a record [na, v] (na: the cell is NaN).     *)
(***************************************************************************)
EXTENDS Integers, Sequences, FiniteSets, TLC

VARIABLES input, outfile, pc, err, df, columns, dtypes, printed

vars == <<input, outfile, pc, err, df, columns, dtypes, printed>>

\* Largest number of rows of an input file.
MaxRows == 3

USD_TO_INR == 83

\* Prices are held in thousandths of a unit.
Scale == 10 * 10 * 10

-----------------------------------------------------------------------------
(* Text *)

Digits == {"0", "1", "2", "3", "4", "5", "6", "7", "8", "9"}

DigitVal(c) ==
    CASE c = "0" -> 0 [] c = "1" -> 1 [] c = "2" -> 2 [] c = "3" -> 3
      [] c = "4" -> 4 [] c = "5" -> 5 [] c = "6" -> 6 [] c = "7" -> 7
      [] c = "8" -> 8 [] c = "9" -> 9

\* str.replace(ch, "", regex=False): every occurrence of ch removed.
StrReplace(s, ch) == SelectSeq(s, LAMBDA c : c # ch)

RECURSIVE LStrip(_)
LStrip(s) ==
    IF s # <<>> /\ Head(s) = " " THEN LStrip(Tail(s)) ELSE s

RECURSIVE RStrip(_)
RStrip(s) ==
    IF s # <<>> /\ s[Len(s)] = " " THEN RStrip(SubSeq(s, 1, Len(s) - 1)) ELSE s

\* str.strip(): leading and trailing whitespace removed.
StrStrip(s) == RStrip(LStrip(s))

\* Position of the first "." of s, Len(s) + 1 when there is none.
RECURSIVE DotPos(_)
DotPos(s) ==
    IF s = <<>> \/ Head(s) = "." THEN 1 ELSE 1 + DotPos(Tail(s))

IntPart(s) == SubSeq(s, 1, DotPos(s) - 1)

FracPart(s) == SubSeq(s, DotPos(s) + 1, Len(s))

AllDigits(s) == \A i \in DOMAIN s : s[i] \in Digits

RECURSIVE DecValue(_)
DecValue(s) ==
    IF s = <<>> THEN 0 ELSE 10 * DecValue(SubSeq(s, 1, Len(s) - 1)) + DigitVal(s[Len(s)])

\* float(text) succeeds: digits with at most one ".", at least one digit,
\* whitespace around them allowed.
IsFloatText(t) ==
    LET s == StrStrip(t)
    IN  /\ AllDigits(IntPart(s))
        /\ AllDigits(FracPart(s))
        /\ Len(IntPart(s)) + Len(FracPart(s)) > 0

\* float(text), in thousandths (texts carry at most three decimals).
FloatValue(t) ==
    LET s  == StrStrip(t)
        f  == FracPart(s)
        f3 == SubSeq(f \o <<"0", "0", "0">>, 1, 3)
    IN  DecValue(IntPart(s)) * Scale + DecValue(f3)

-----------------------------------------------------------------------------
(* Input files: rows of fields as the CSV tokenizer delimits them *)

RowA == << <<"1">>, <<"W">>, <<"$", "1", "0", ".", "0", "0">>, <<"U", "S">> >>

RowB == << <<"2">>, <<"W", "\"">>, <<"$", "1", "0">>, <<"I", "N">> >>

RowC == << <<"3">>, <<"G">>, <<"1", "0">>, <<"U", "S">> >>

RowD == << <<"4">>, <<"W">>, <<"$", "a">>, <<"U", "S">> >>

RowE == << <<"5">>, <<"G">>, <<>>, <<"U", "S">> >>

RowF == << <<"6">>, <<>>, <<" ", "$", "2", " ">>, <<"U", "S">> >>

RowG == << <<"7">>, <<" ", "G", " ">>, <<"$", "2">>, <<"N", "A">> >>

RowH == << <<"8">>, <<"W">> >>

RowI == << <<"9">>, <<"1">>, <<"W">>, <<"$", "1", "0">>, <<"U", "S">> >>

RowJ == << <<"1">>, <<"7">>, <<"$", "2">>, <<"U", "S">> >>

RowK == << <<"2">>, <<"G">>, <<"$", "0", ".", "0", "0", "9">>, <<"I", "N">> >>

RowL == << <<>>, <<"W">>, <<"$", "2">>, <<"U", "S">> >>

Rows == {RowA, RowB, RowC, RowD, RowE, RowF, RowG, RowH, RowI, RowJ, RowK, RowL}

Files == UNION {[1..n -> Rows] : n \in 0..MaxRows}

-----------------------------------------------------------------------------
(* pd.read_csv(input_file, header=None, names=[4 names], skipinitialspace) *)

Names == <<"id", "product", "price", "country">>

\* Field texts read_csv takes for NaN (its default na_values, those the
\* alphabet of the inputs can spell).
NaTexts == {<<>>, <<"N", "A">>, <<"N", "a", "N">>, <<"n", "a", "n">>}

NaCell == [na |-> TRUE, v |-> <<>>]

Max(a, b) == IF a >= b THEN a ELSE b

\* Fields the tokenizer expects per row: the names' count, or the first
\* row's when that is larger.
TableWidth(rows) == IF rows = <<>> THEN Len(Names) ELSE Max(Len(rows[1]), Len(Names))

\* "Expected n fields in line i, saw m": a row after the first with more
\* fields than expected.  Shorter rows are padded, never refused.
TooManyFields(rows) ==
    \E i \in DOMAIN rows : i > 1 /\ Len(rows[i]) > TableWidth(rows)

\* The text of field k of row i: initial spaces skipped, a field the row
\* does not have or an NA text is NaN.
RawCell(rows, i, k) ==
    IF k > Len(rows[i]) THEN NaCell
    ELSE LET t == LStrip(rows[i][k])
         IN  IF t \in NaTexts THEN NaCell ELSE [na |-> FALSE, v |-> t]

\* Column c (1..4) of the frame sits after the leading (index) fields.
ColumnCell(rows, i, c) == RawCell(rows, i, TableWidth(rows) - Len(Names) + c)

\* InferDtype without the empty file's case: no text column is found.
InferDtypeNoEmptyCase(rows, c) ==
    IF \A i \in DOMAIN rows :
            ColumnCell(rows, i, c).na \/ IsFloatText(ColumnCell(rows, i, c).v)
    THEN "numeric"
    ELSE "object"

\* Type inference of a parsed column: "numeric" (int64 or float64) when
\* every non-NaN text is a number, text (object) otherwise; the columns of
\* an empty file are object.
InferDtype(rows, c) ==
    IF rows = <<>> THEN "object"
    ELSE IF \A i \in DOMAIN rows :
                ColumnCell(rows, i, c).na \/ IsFloatText(ColumnCell(rows, i, c).v)
         THEN "numeric"
         ELSE "object"

TypedCell(rows, i, c) ==
    LET x == ColumnCell(rows, i, c)
    IN  IF InferDtype(rows, c) = "object" THEN x
        ELSE IF x.na THEN [na |-> TRUE, v |-> 0]
        ELSE [na |-> FALSE, v |-> FloatValue(x.v)]

ReadCsvFrame(rows) ==
    [i \in DOMAIN rows |->
        [row     |-> i,
         id      |-> TypedCell(rows, i, 1),
         product |-> TypedCell(rows, i, 2),
         price   |-> TypedCell(rows, i, 3),
         country |-> TypedCell(rows, i, 4)]]

ReadCsvDtypes(rows) ==
    [id      |-> InferDtype(rows, 1),
     product |-> InferDtype(rows, 2),
     price   |-> InferDtype(rows, 3),
     country |-> InferDtype(rows, 4)]

-----------------------------------------------------------------------------
(* Series and frame operations main uses *)

\* series.str: the accessor exists on text (object) columns only.
HasStrAccessor(dtype) == dtype = "object"

\* product.str.replace('"', '').str.strip() on one cell; NaN stays NaN.
CleanProduct(x) ==
    IF x.na THEN x ELSE [na |-> FALSE, v |-> StrStrip(StrReplace(x.v, "\""))]

\* price.str.replace("$", "").str.strip() on one cell; NaN stays NaN.
CleanPriceText(x) ==
    IF x.na THEN x ELSE [na |-> FALSE, v |-> StrStrip(StrReplace(x.v, "$"))]

\* astype(float) raises ValueError on a text float() cannot convert.
AstypeFloatFails(x) == ~x.na /\ ~IsFloatText(x.v)

AstypeFloat(x) ==
    IF x.na THEN [na |-> TRUE, v |-> 0] ELSE [na |-> FALSE, v |-> FloatValue(x.v)]

\* isnull() on a row: NaN in any of the four columns.
HasNull(r) == r.id.na \/ r.product.na \/ r.price.na \/ r.country.na

\* isnull().sum(): NaN cells per column.
NullCounts(d) ==
    [id      |-> Cardinality({i \in DOMAIN d : d[i].id.na}),
     product |-> Cardinality({i \in DOMAIN d : d[i].product.na}),
     price   |-> Cardinality({i \in DOMAIN d : d[i].price.na}),
     country |-> Cardinality({i \in DOMAIN d : d[i].country.na})]

\* DropNa as dropna(how="all"): only the rows that are NaN throughout go.
DropNaHowAll(d) ==
    SelectSeq(d, LAMBDA r : ~(r.id.na /\ r.product.na /\ r.price.na /\ r.country.na))

\* dropna(): the rows without NaN, in order.
DropNa(d) == SelectSeq(d, LAMBDA r : ~HasNull(r))

\* The subset=["product", "price"] key of a row.
DupKey(r) == <<r.product.v, r.price.v>>

\* Duplicated as keep="last": a later row has the same key.
DuplicatedKeepLast(d, i) == \E j \in (i + 1)..Len(d) : DupKey(d[j]) = DupKey(d[i])

\* duplicated(subset, keep="first"): an earlier row has the same key.
Duplicated(d, i) == \E j \in 1..(i - 1) : DupKey(d[j]) = DupKey(d[i])

\* DuplicatedSum as keep=False: every row of a group of equals is counted.
DuplicatedSumKeepFalse(d) ==
    Cardinality({i \in DOMAIN d : \E j \in DOMAIN d : j # i /\ DupKey(d[j]) = DupKey(d[i])})

\* duplicated(...).sum()
DuplicatedSum(d) == Cardinality({i \in DOMAIN d : Duplicated(d, i)})

RECURSIVE KeepFrom(_, _)
KeepFrom(d, i) ==
    IF i > Len(d) THEN <<>>
    ELSE IF Duplicated(d, i) THEN KeepFrom(d, i + 1)
    ELSE <<d[i]>> \o KeepFrom(d, i + 1)

\* DropDuplicates with the kept rows collected last to first.
DropDuplicatesReversed(d) ==
    LET k == KeepFrom(d, 1) IN [i \in 1..Len(k) |-> k[Len(k) + 1 - i]]

\* drop_duplicates(subset): the rows duplicated() does not mark, in order.
DropDuplicates(d) == KeepFrom(d, 1)

\* Round2 cutting the third decimal off instead of rounding.
Round2Truncate(x) == 10 * (x \div 10)

\* round(2) of a number of thousandths: to the nearest ten, ties to even.
Round2(x) ==
    LET q == x \div 10
        r == x % 10
    IN  IF r < 5 THEN 10 * q
        ELSE IF r > 5 THEN 10 * (q + 1)
        ELSE IF q % 2 = 0 THEN 10 * q ELSE 10 * (q + 1)

\* (price * USD_TO_INR).round(2)
PriceInr(price) == Round2(price * USD_TO_INR)

OutColumns == <<"id", "product", "price_usd", "price_inr", "country">>

\* to_json(orient="records"): one object per row, the index left out.
JsonRecords(d) ==
    [k \in DOMAIN d |->
        [id        |-> d[k].id.v,
         product   |-> d[k].product.v,
         price_usd |-> d[k].price_usd,
         price_inr |-> d[k].price_inr,
         country   |-> d[k].country.v]]

-----------------------------------------------------------------------------
(* main *)

NotPrinted == 0 - 1

Init ==
    /\ input \in Files
    /\ outfile \in {[state |-> "absent", keys |-> <<>>, records |-> <<>>],
                    [state |-> "stale", keys |-> <<>>, records |-> <<>>]}
    /\ pc = "load"
    /\ err = "none"
    /\ df = <<>>
    /\ columns = <<>>
    /\ dtypes = [id |-> "none", product |-> "none", price |-> "none", country |-> "none"]
    /\ printed = [total |-> NotPrinted, nulls |-> NotPrinted, afterNull |-> NotPrinted,
                  duplicates |-> NotPrinted, afterDedup |-> NotPrinted, created |-> FALSE]

\* Raise with the exception caught and the run left where it is.
RaiseAndStay(e) ==
    /\ pc' = pc
    /\ err' = e

\* An exception leaves main: the process ends with a traceback.
Raise(e) ==
    /\ pc' = "failed"
    /\ err' = e

\* Lines 11-16, the input file cannot be opened.
LoadNoFile ==
    /\ pc = "load"
    /\ Raise("FileNotFoundError")
    /\ UNCHANGED <<input, outfile, df, columns, dtypes, printed>>

\* Lines 11-16.
Load ==
    /\ pc = "load"
    /\ IF TooManyFields(input)
       THEN /\ Raise("ParserError")
            /\ UNCHANGED <<df, columns, dtypes, printed>>
       ELSE /\ df' = ReadCsvFrame(input)
            /\ dtypes' = ReadCsvDtypes(input)
            /\ columns' = Names
            /\ printed' = [printed EXCEPT !.total = Len(df')]
            /\ pc' = "normalize_product"
            /\ UNCHANGED err
    /\ UNCHANGED <<input, outfile>>

\* Line 20.
NormalizeProduct ==
    /\ pc = "normalize_product"
    /\ IF ~HasStrAccessor(dtypes.product)
       THEN /\ Raise("AttributeError")
            /\ UNCHANGED df
       ELSE /\ df' = [i \in DOMAIN df |-> [df[i] EXCEPT !.product = CleanProduct(@)]]
            /\ pc' = "normalize_price"
            /\ UNCHANGED err
    /\ UNCHANGED <<input, outfile, columns, dtypes, printed>>

\* Lines 23-24.
NormalizePrice ==
    /\ pc = "normalize_price"
    /\ IF ~HasStrAccessor(dtypes.price)
       THEN /\ Raise("AttributeError")
            /\ UNCHANGED <<df, dtypes>>
       ELSE IF \E i \in DOMAIN df : AstypeFloatFails(CleanPriceText(df[i].price))
       THEN /\ Raise("ValueError")
            /\ UNCHANGED <<df, dtypes>>
       ELSE /\ df' = [i \in DOMAIN df |->
                        [df[i] EXCEPT !.price = AstypeFloat(CleanPriceText(@))]]
            /\ dtypes' = [dtypes EXCEPT !.price = "numeric"]
            /\ pc' = "dropna"
            /\ UNCHANGED err
    /\ UNCHANGED <<input, outfile, columns, printed>>

\* Lines 27-30.
DropNull ==
    /\ pc = "dropna"
    /\ df' = DropNa(df)
    /\ printed' = [printed EXCEPT !.nulls = NullCounts(df), !.afterNull = Len(df')]
    /\ pc' = "drop_duplicates"
    /\ UNCHANGED <<input, outfile, err, columns, dtypes>>

\* Lines 33-35.
Dedup ==
    /\ pc = "drop_duplicates"
    /\ df' = DropDuplicates(df)
    /\ printed' = [printed EXCEPT !.duplicates = DuplicatedSum(df), !.afterDedup = Len(df')]
    /\ pc' = "convert"
    /\ UNCHANGED <<input, outfile, err, columns, dtypes>>

\* Line 38.
Convert ==
    /\ pc = "convert"
    /\ df' = [i \in DOMAIN df |->
                [row |-> df[i].row, id |-> df[i].id, product |-> df[i].product,
                 price |-> df[i].price, country |-> df[i].country,
                 price_inr |-> PriceInr(df[i].price.v)]]
    /\ columns' = Append(columns, "price_inr")
    /\ pc' = "reshape"
    /\ UNCHANGED <<input, outfile, err, dtypes, printed>>

\* Lines 42-44.
Reshape ==
    /\ pc = "reshape"
    /\ df' = [i \in DOMAIN df |->
                [row |-> df[i].row, id |-> df[i].id, product |-> df[i].product,
                 price_usd |-> df[i].price.v, price_inr |-> df[i].price_inr,
                 country |-> df[i].country]]
    /\ columns' = OutColumns
    /\ pc' = "write"
    /\ UNCHANGED <<input, outfile, err, dtypes, printed>>

\* Lines 48-49, the output file cannot be opened for writing.
WriteNoFile ==
    /\ pc = "write"
    /\ Raise("OSError")
    /\ UNCHANGED <<input, outfile, df, columns, dtypes, printed>>

\* Lines 48-49.
Write ==
    /\ pc = "write"
    /\ outfile' = [state |-> "written", keys |-> columns, records |-> JsonRecords(df)]
    /\ printed' = [printed EXCEPT !.created = TRUE]
    /\ pc' = "done"
    /\ UNCHANGED <<input, err, df, columns, dtypes>>

Next ==
    \/ LoadNoFile
    \/ Load
    \/ NormalizeProduct
    \/ NormalizePrice
    \/ DropNull
    \/ Dedup
    \/ Convert
    \/ Reshape
    \/ WriteNoFile
    \/ Write

Spec == Init /\ [][Next]_vars

-----------------------------------------------------------------------------
(* What the properties say of an input row *)

\* Row i of the input has a value in each of its four columns.
Survives(i) == \A c \in 1..4 : ~ColumnCell(input, i, c).na

\* The product of row i with quote characters and outer whitespace removed.
SrcProduct(i) == StrStrip(StrReplace(ColumnCell(input, i, 2).v, "\""))

\* The price text of row i with "$" and outer whitespace removed.
SrcPriceText(i) == StrStrip(StrReplace(ColumnCell(input, i, 3).v, "$"))

SrcKey(i) == <<SrcProduct(i), FloatValue(SrcPriceText(i))>>

\* Every row has exactly four fields.
FourFields == \A i \in DOMAIN input : Len(input[i]) = 4

Abs(x) == IF x < 0 THEN 0 - x ELSE x

StageRank(p) ==
    CASE p = "load" -> 1
      [] p = "normalize_product" -> 2
      [] p = "normalize_price" -> 3
      [] p = "dropna" -> 4
      [] p = "drop_duplicates" -> 5
      [] p = "convert" -> 6
      [] p = "reshape" -> 7
      [] p = "write" -> 8
      [] p = "done" -> 9
      [] OTHER -> 0

-----------------------------------------------------------------------------
(* Properties *)

\* C1: when some row's price, after removing "$" and surrounding
\* whitespace, is not a parseable number, the run does not abort: the price
\* becomes a missing value, the Missing-Value Filter drops that row, the row
\* is counted as a missing price, and the other valid rows reach the output.
C1_UnparseablePriceIsDropped ==
    \A i \in DOMAIN input :
        (FourFields /\ ~ColumnCell(input, i, 3).na /\ ~IsFloatText(SrcPriceText(i)))
        => /\ err # "ValueError"
           /\ pc = "drop_duplicates" =>
                /\ \A k \in DOMAIN df : df[k].row # i
                /\ printed.nulls.price >= 1

\* C2: no two output records have the same (product, price_usd), and for
\* every key among the rows that survive the Missing-Value Filter the output
\* holds the earliest such row of the input, whatever the id and country of
\* the later ones.
C2_FirstOfEachKeyKept ==
    pc = "done" =>
        /\ \A a, b \in DOMAIN outfile.records :
              (outfile.records[a].product = outfile.records[b].product
               /\ outfile.records[a].price_usd = outfile.records[b].price_usd) => a = b
        /\ \A i \in DOMAIN input :
              Survives(i) =>
                 \E k \in DOMAIN outfile.records :
                    /\ <<outfile.records[k].product, outfile.records[k].price_usd>> = SrcKey(i)
                    /\ df[k].row <= i
                    /\ \A j \in 1..(df[k].row - 1) : Survives(j) => SrcKey(j) # SrcKey(i)
                    /\ outfile.records[k].country = ColumnCell(input, df[k].row, 4).v

C2_Witness ==
    /\ pc = "done"
    /\ \E i, j \in DOMAIN input :
          /\ i < j /\ Survives(i) /\ Survives(j)
          /\ SrcKey(i) = SrcKey(j)
          /\ ColumnCell(input, i, 4) # ColumnCell(input, j, 4)
          /\ ColumnCell(input, i, 3) # ColumnCell(input, j, 3)
    /\ Len(outfile.records) >= 2

\* C3: the Missing-Value Filter keeps exactly the rows that have a value in
\* all four columns, and every output record has its four original fields
\* present, price_usd being the number the input price parses to.
C3_FilterDropsExactlyMissing ==
    /\ pc = "drop_duplicates" =>
          /\ {df[k].row : k \in DOMAIN df} = {i \in DOMAIN input : Survives(i)}
          /\ \A k \in DOMAIN df :
                ~df[k].id.na /\ ~df[k].product.na /\ ~df[k].price.na /\ ~df[k].country.na
    /\ pc = "done" =>
          \A k \in DOMAIN df :
             /\ Survives(df[k].row)
             /\ ~df[k].id.na /\ ~df[k].product.na /\ ~df[k].country.na
             /\ IsFloatText(SrcPriceText(df[k].row))
             /\ outfile.records[k].price_usd = FloatValue(SrcPriceText(df[k].row))

C3_Witness ==
    /\ pc = "done"
    /\ Len(outfile.records) >= 1
    /\ \E i, j \in DOMAIN input :
          /\ ColumnCell(input, i, 4).na /\ ~ColumnCell(input, i, 3).na
          /\ ColumnCell(input, j, 3).na

\* C4: the output holds the input rows less those the Missing-Value Filter
\* dropped less those the Deduplicator dropped, and the duplicate count
\* printed before the removal is the number of rows the removal takes away.
C4_RowCountIdentity ==
    pc = "done" =>
        /\ printed.total = Len(input)
        /\ Len(outfile.records) =
              Len(input) - Cardinality({i \in DOMAIN input : ~Survives(i)})
                         - printed.duplicates
        /\ printed.duplicates = printed.afterNull - printed.afterDedup
        /\ Len(outfile.records) = printed.afterDedup

C4_Witness ==
    /\ pc = "done"
    /\ printed.duplicates >= 1
    /\ printed.afterNull < printed.total
    /\ Len(outfile.records) >= 1

\* C5: an input file with no rows does not fail in the Loader or the
\* Normalizer; every stage completes and the output written is an empty
\* array.
C5_EmptyInputSucceeds ==
    input = <<>> =>
        /\ pc = "failed" => err \in {"FileNotFoundError", "OSError"}
        /\ err = "FileNotFoundError" => printed.total = NotPrinted
        /\ err = "OSError" => columns = OutColumns
        /\ pc = "done" => /\ outfile.state = "written"
                          /\ outfile.records = <<>>
                          /\ printed.created

C5_Witness ==
    /\ input = <<>>
    /\ pc = "done"
    /\ outfile.state = "written"

\* C6: a row that does not have exactly four fields makes the Loader fail
\* with a ParseError; no later stage ever handles such a row.
C6_WrongFieldCountIsFatal ==
    (\E i \in DOMAIN input : Len(input[i]) # 4) =>
        /\ pc \in {"load", "failed"}
        /\ pc = "failed" => err \in {"ParserError", "FileNotFoundError"}

\* C7: in every output record price_inr is price_usd times 83 rounded to
\* two decimals ("$10.00" gives 10.0 and 830.0), and price_usd is the
\* number the input price parses to.
C7_PriceInrIsRoundedProduct ==
    pc = "done" =>
        \A k \in DOMAIN outfile.records :
            LET r == outfile.records[k]
            IN  /\ r.price_usd = FloatValue(SrcPriceText(df[k].row))
                /\ r.price_inr % 10 = 0
                /\ 2 * Abs(r.price_inr - 83 * r.price_usd) <= 10
                /\ ColumnCell(input, df[k].row, 3).v = <<"$", "1", "0", ".", "0", "0">>
                      => r.price_usd = 10 * Scale /\ r.price_inr = 830 * Scale

C7_Witness ==
    /\ pc = "done"
    /\ \E k \in DOMAIN outfile.records :
          (83 * outfile.records[k].price_usd) % 10 > 5
    /\ \E k \in DOMAIN outfile.records :
          outfile.records[k].price_inr = 830 * Scale

\* C8: the output records are in the order of the input rows they come
\* from, through the Missing-Value Filter and the Deduplicator.
C8_InputOrderPreserved ==
    pc = "done" =>
        /\ Len(outfile.records) = Len(df)
        /\ \A a, b \in DOMAIN df : a < b => df[a].row < df[b].row
        /\ \A k \in DOMAIN df :
              /\ df[k].row \in DOMAIN input
              /\ outfile.records[k].product = SrcProduct(df[k].row)
              /\ outfile.records[k].country = ColumnCell(input, df[k].row, 4).v

C8_Witness ==
    /\ pc = "done"
    /\ Len(input) > Len(df)
    /\ \E a, b \in DOMAIN df :
          /\ a < b
          /\ outfile.records[a].product # outfile.records[b].product
          /\ df[b].row > df[a].row + 1

\* C9: the stages run in the order Load, Normalize, Filter, Dedup, Convert,
\* Reshape, Write; after a failure no stage runs; and only a completing
\* Write creates or changes the output file.
C9_LinearFailFast ==
    [][/\ pc # "failed"
       /\ pc # "done"
       /\ pc' = "failed" \/ StageRank(pc') = StageRank(pc) + 1
       /\ pc' = "failed" => err' # "none"
       /\ outfile' # outfile => pc = "write" /\ pc' = "done"]_vars

C9_Witness ==
    /\ pc = "failed"
    /\ err \in {"ParserError", "AttributeError", "ValueError"}
    /\ outfile.state = "stale"

\* C10: the "$" on the price is optional: also when no row's price carries
\* one, the Field Normalizer succeeds and parses each price to the number
\* the same text with the symbol parses to.
C10_DollarSignOptional ==
    [][(/\ pc = "normalize_price"
        /\ input # <<>>
        /\ FourFields
        /\ \A i \in DOMAIN input : IsFloatText(input[i][3]))
       => /\ pc' = "dropna"
          /\ \A k \in DOMAIN df' :
                df'[k].price.v = FloatValue(StrReplace(<<"$">> \o input[k][3], "$"))]_vars

====
